---- MODULE Spec2Model ----
(***************************************************************************)
(* uapt ("user mode apt"), src/uapt/__init__.py.                           *)
(*                                                                         *)
(* One command-line invocation (update, list, install, run) is a process   *)
(* whose position is pc.  The remote mirror, the host clock offset and the *)
(* host machine type are the environment.  Times are whole seconds since   *)
(* the epoch (UTC); an HTTP date is modelled by the GMT instant it         *)
(* denotes.  A text line is the sequence of its words split at single      *)
(* spaces (an empty word stands for an empty piece between two spaces),    *)
(* so the blank line is <<"">>.  An archive member name is the sequence of *)
(* its pieces split at dots.                                               *)
(***************************************************************************)
EXTENDS Integers, Sequences, FiniteSets, TLC

\* ------------------------------------------------------------------ bounds
MaxTime == 2
MaxOffset == 1
MaxLines == 4
MaxPackages == 2

Times == 0..MaxTime
Offsets == (0 - MaxOffset)..MaxOffset

\* ------------------------------------------------------- program constants
mirror == "https://deb.debian.org/debian"
Machines == {"x86_64", "aarch64"}

\* the mapping looked up with a default: {...}.get(machine, 'amd64')
ArchMapDefault == [m \in Machines |-> "amd64"]

\* line 31: the machine types with an architecture
ArchMap == [m \in {"x86_64"} |-> "amd64"]
rfc5322_fmt == "%a, %d %b %Y %H:%M:%S GMT"

NoHeader == [present |-> FALSE, gmt |-> 0]
NoErr == [type |-> "none", msg |-> "", arg |-> ""]
NoSnapshot == [present |-> FALSE, content |-> <<>>, mtime |-> 0]
NoResp == [status |-> 0, body |-> <<>>, lastModified |-> 0]

\* ------------------------------------------------------------ text helpers
Blank == <<"">>
PackageLine(name) == <<"Package:", name>>

\* line.startswith(key + ' ')
StartsWithField(line, key) == Len(line) >= 2 /\ line[1] = key

IsWord(w) == w # ""

\* line.split()
Split(line) == SelectSeq(line, IsWord)

\* line.split()[1]: the first token after the field name
SecondToken(line) == Split(line)[IF Len(Split(line)) >= 2 THEN 2 ELSE 1]

\* line.split()[-1]
LastToken(line) == Split(line)[Len(Split(line))]

RECURSIVE Strip(_)
\* line.strip(): drops the leading and trailing whitespace
Strip(line) ==
    IF Len(line) > 1 /\ line[Len(line)] = "" THEN Strip(SubSeq(line, 1, Len(line) - 1))
    ELSE IF Len(line) > 1 /\ line[1] = "" THEN Strip(Tail(line))
    ELSE line

\* line.strip().partition(' ')[2]
AfterFirstSpace(line) == Tail(Strip(line))

\* ------------------------------------------------------------ date helpers
\* datetime.datetime.fromtimestamp(t): the naive local wall-clock reading
fromtimestamp(t, offset) == t + offset

\* naive.strftime(rfc5322_fmt): the reading is printed as it stands and
\* labelled GMT, so the header denotes the instant whose GMT reading it is
strftime(naive) == [present |-> TRUE, gmt |-> naive]

\* strptime(h, rfc5322_fmt).replace(tzinfo=utc).timestamp()
strptimeUTC(gmt) == gmt

\* ---------------------------------------------------------- stanza parser
RECURSIVE ScanStanza(_, _)
\* the inner "for line in f" of install1, reading on from line k
ScanStanza(lines, k) ==
    IF k > Len(lines) THEN [kind |-> "unbound", value |-> ""]
    ELSE IF StartsWithField(lines[k], "Filename:")
         THEN [kind |-> "ok", value |-> LastToken(lines[k])]
    ELSE IF lines[k] = Blank THEN [kind |-> "malformed", value |-> ""]
    ELSE ScanStanza(lines, k + 1)

RECURSIVE ScanIndexNoElse(_, _, _)
\* the outer loop without its else clause: running off the end leaves uri unbound
ScanIndexNoElse(lines, k, name) ==
    IF k > Len(lines) THEN [kind |-> "unbound", value |-> ""]
    ELSE IF lines[k] = PackageLine(name) THEN ScanStanza(lines, k + 1)
    ELSE ScanIndexNoElse(lines, k + 1, name)

RECURSIVE ScanIndexLast(_, _, _)
\* the outer loop without its break: a later stanza for the name overrides
ScanIndexLast(lines, k, name) ==
    IF k > Len(lines) THEN [kind |-> "notfound", value |-> name]
    ELSE IF lines[k] = PackageLine(name)
         THEN LET later == ScanIndexLast(lines, k + 1, name) IN
              IF later.kind = "notfound" THEN ScanStanza(lines, k + 1) ELSE later
    ELSE ScanIndexLast(lines, k + 1, name)

RECURSIVE ScanIndex(_, _, _)
\* the outer "for line in f" of install1, reading on from line k
ScanIndex(lines, k, name) ==
    IF k > Len(lines) THEN [kind |-> "notfound", value |-> name]
    ELSE IF lines[k] = PackageLine(name) THEN ScanStanza(lines, k + 1)
    ELSE ScanIndex(lines, k + 1, name)

Resolve(lines, name) == ScanIndex(lines, 1, name)

\* the exception install1 raises for a scan that yields no uri
ResolveError(r) ==
    CASE r.kind = "malformed" ->
           [type |-> "RuntimeError", msg |-> "Package found, but no URL?", arg |-> ""]
      [] r.kind = "notfound" ->
           [type |-> "RuntimeError", msg |-> "No such package", arg |-> r.value]
      [] r.kind = "unbound" ->
           [type |-> "UnboundLocalError", msg |-> "uri", arg |-> ""]
      [] OTHER -> NoErr

RECURSIVE ListOutput(_, _)
\* what list prints for the lines from k on: one piece per print call
ListOutput(lines, k) ==
    IF k > Len(lines) THEN <<>>
    ELSE (IF StartsWithField(lines[k], "Package:")
             THEN << [text |-> <<LastToken(lines[k])>>, end |-> "\t"] >> ELSE <<>>)
         \o (IF StartsWithField(lines[k], "Description:")
             THEN << [text |-> AfterFirstSpace(lines[k]), end |-> "\n"] >> ELSE <<>>)
         \o ListOutput(lines, k + 1)

\* -------------------------------------------------------------- archives
Paths == {"bin/hello", "usr/bin/foo"}
TmpDeb == <<"tmp", "deb">>

\* the artifacts the mirror may serve for a package path
Debs ==
    { [members |-> << <<"debian-binary">>, <<"control", "tar", "xz">>, <<"data", "tar", "xz">> >>,
       payload |-> [p \in Paths |-> IF p = "bin/hello" THEN "v1" ELSE ""]],
      [members |-> << <<"debian-binary">>, <<"control", "tar", "zst">>, <<"data", "tar", "zst">> >>,
       payload |-> [p \in Paths |-> "v2"]],
      [members |-> << <<"debian-binary">>, <<"control", "tar", "gz">>, <<"data", "tar", "gz">> >>,
       payload |-> [p \in Paths |-> IF p = "usr/bin/foo" THEN "v3" ELSE ""]],
      [members |-> << <<"debian-binary">>, <<"data", "tar", "gz">>, <<"data", "tar", "xz">> >>,
       payload |-> [p \in Paths |-> "v1"]],
      [members |-> << <<"debian-binary">>, <<"control", "tar", "gz">> >>,
       payload |-> [p \in Paths |-> ""]] }
NoDeb == [members |-> <<>>, payload |-> [p \in Paths |-> ""]]

\* line.startswith('data.tar.')
IsDataMember(m) == Len(m) >= 3 /\ m[1] = "data" /\ m[2] = "tar"

\* next(...) of the generator instead of the one-element unpacking
DataMembersFirst(d) ==
    IF Len(SelectSeq(d.members, IsDataMember)) > 1
       THEN <<SelectSeq(d.members, IsDataMember)[1]>>
       ELSE SelectSeq(d.members, IsDataMember)

\* the generator of install1 line 89-93: the members ar -t lists that match
DataMembers(d) == SelectSeq(d.members, IsDataMember)

\* tar xf --skip-old-files: a file the root already holds is kept
OverlayKeep(files, payload, written) ==
    [p \in Paths |-> IF p \in written /\ payload[p] # "" /\ files[p] = ""
                        THEN payload[p] ELSE files[p]]

\* tar xf: every path of the payload replaces what the root holds there
Overlay(files, payload, written) ==
    [p \in Paths |-> IF p \in written /\ payload[p] # "" THEN payload[p] ELSE files[p]]

\* ----------------------------------------------------------------- state
VARIABLES
    machine,        \* os.uname().machine
    tzOffset,       \* host local time minus UTC
    remoteIndex,    \* the Packages.gz the mirror holds (its lines, decompressed)
    remoteLM,       \* the Last-Modified the mirror reports for it
    rootExists,     \* root_path is a directory
    snapshot,       \* packages_path: present, content, mtime
    rootFiles,      \* the files extracted under root_path: path -> content
    tmp,            \* the files of the TemporaryDirectory of install1
    pc,             \* position of the running invocation
    op,             \* its subcommand
    packages,       \* the names given to install
    idx,            \* position of the for loop of install
    package_name,   \* argument of the running install1
    request,        \* the if-modified-since header of the request
    resp,           \* the response under "with urlopen(request) as resp"
    uri,            \* uri of install1
    deb,            \* content of tmp.deb
    data_filename,  \* data_filename of install1
    err,            \* the exception that ended the invocation
    stdout,         \* what list printed
    syncs,          \* history: update() calls begun in this invocation
    gets,           \* history: index GETs issued in this invocation
    attempted,      \* history: names handed to install1 in this invocation
    raised,         \* history: an install1 call of this invocation raised
    hadSnapshot,    \* history: the running update() found a snapshot
    prevOutcome,    \* history: how the last update() ended, "none" once the mirror changed
    snapLM          \* history: Last-Modified of the response whose body the snapshot holds

env == <<machine, tzOffset>>
remote == <<remoteIndex, remoteLM>>
files == <<rootExists, snapshot, rootFiles, tmp>>
proc == <<pc, op, packages, idx, package_name, request, resp, uri, deb, data_filename,
          err, stdout>>
hist == <<syncs, gets, attempted, raised, hadSnapshot, prevOutcome, snapLM>>
vars == <<env, remote, files, proc, hist>>

UpdatePcs == {"mkdir", "request", "urlopen", "write", "utime"}
Install1Pcs == {"resolve", "download", "ar_t", "ar_x", "tar"}

\* ------------------------------------------------------------ main, line 128
\* install() without its update() call
EntryNoUpdate(o) == IF o = "run" THEN "run" ELSE IF o = "install" THEN "loop" ELSE "mkdir"

\* where main() sends the subcommand: update, list and install begin with update()
Entry(o) == IF o = "run" THEN "run" ELSE "mkdir"

\* what follows the return of update() in the subcommand
AfterUpdate(o) ==
    CASE o = "update" -> "done"
      [] o = "list" -> "list"
      [] o = "install" -> "loop"

\* install() with "except Exception: continue" around install1
AfterInstall1RaiseContinue == "loop"

\* install() has no handler around install1: the exception ends the invocation
AfterInstall1Raise == "done"

\* update() with a bare "raise" in its except clause
HandleHTTPErrorRaise(code) == "raise"

\* update() with "pass" in its except clause
HandleHTTPErrorPass(code) == "return"

\* the except clause of update(): 304 is logged, anything else re-raised
HandleHTTPError(code) == IF code = 304 THEN "return" ELSE "raise"

\* a new invocation: module import (line 31 looks the machine up), then main()
Start(o, args) ==
    /\ pc \in {"idle", "done"}
    /\ op' = o
    /\ packages' = args
    /\ idx' = 1
    /\ package_name' = ""
    /\ request' = NoHeader
    /\ resp' = NoResp
    /\ uri' = <<>>
    /\ deb' = NoDeb
    /\ data_filename' = <<>>
    /\ stdout' = <<>>
    /\ syncs' = 0
    /\ gets' = 0
    /\ attempted' = <<>>
    /\ raised' = FALSE
    /\ hadSnapshot' = FALSE
    /\ IF machine \in DOMAIN ArchMap
          THEN pc' = Entry(o) /\ err' = NoErr
          ELSE pc' = "done" /\ err' = [type |-> "KeyError", msg |-> machine, arg |-> ""]
    /\ UNCHANGED <<env, remote, files, prevOutcome, snapLM>>

\* ------------------------------------------------------------------ update
\* update() without its mkdir
MkdirSkipped ==
    /\ pc = "mkdir"
    /\ syncs' = syncs + 1
    /\ pc' = "request"
    /\ UNCHANGED <<env, remote, files, op, packages, idx, package_name,
                   request, resp, uri, deb, data_filename, err, stdout,
                   gets, attempted, raised, hadSnapshot, prevOutcome, snapLM>>

\* line 36: root_path.mkdir(mode=0o0700, parents=True, exist_ok=True)
Mkdir ==
    /\ pc = "mkdir"
    /\ rootExists' = TRUE
    /\ syncs' = syncs + 1
    /\ pc' = "request"
    /\ UNCHANGED <<env, remote, snapshot, rootFiles, tmp, op, packages, idx, package_name,
                   request, resp, uri, deb, data_filename, err, stdout,
                   gets, attempted, raised, hadSnapshot, prevOutcome, snapLM>>

\* the header lines 41-42 build from the snapshot's st_mtime
IfModifiedSince(mtime, offset) == strftime(fromtimestamp(mtime, offset))

\* lines 38-44: the request, conditional when the snapshot exists
BuildRequest ==
    /\ pc = "request"
    /\ request' = IF snapshot.present THEN IfModifiedSince(snapshot.mtime, tzOffset)
                                      ELSE NoHeader
    /\ hadSnapshot' = snapshot.present
    /\ pc' = "urlopen"
    /\ UNCHANGED <<env, remote, files, op, packages, idx, package_name,
                   resp, uri, deb, data_filename, err, stdout,
                   syncs, gets, attempted, raised, prevOutcome, snapLM>>

\* the mirror's answer to the conditional GET: not modified when its copy is
\* no newer than the instant the header denotes
NotModified(req) == req.present /\ remoteLM <= req.gmt

\* line 46, status 200: the response is open, nothing is written yet
Urlopen200 ==
    /\ pc = "urlopen"
    /\ ~NotModified(request)
    /\ resp' = [status |-> 200, body |-> remoteIndex, lastModified |-> remoteLM]
    /\ gets' = gets + 1
    /\ pc' = "write"
    /\ UNCHANGED <<env, remote, files, op, packages, idx, package_name, request,
                   uri, deb, data_filename, err, stdout,
                   syncs, attempted, raised, hadSnapshot, prevOutcome, snapLM>>

\* line 46 raises HTTPError(code); lines 53-57 handle it
UrlopenHTTPError ==
    /\ pc = "urlopen"
    /\ \E code \in (IF NotModified(request) THEN {304} ELSE {}) \cup {404, 503} :
          /\ resp' = [status |-> code, body |-> <<>>, lastModified |-> 0]
          /\ IF HandleHTTPError(code) = "return"
                THEN /\ pc' = AfterUpdate(op)
                     /\ err' = NoErr
                     /\ prevOutcome' = "notmod"
                ELSE /\ pc' = "done"
                     /\ err' = [type |-> "HTTPError", msg |-> "", arg |-> ""]
                     /\ prevOutcome' = "error"
    /\ gets' = gets + 1
    /\ UNCHANGED <<env, remote, files, op, packages, idx, package_name, request,
                   uri, deb, data_filename, stdout,
                   syncs, attempted, raised, hadSnapshot, snapLM>>

\* line 47: packages_path.write_bytes(resp.read()); the file's mtime is the
\* time of the write, some instant not before the mirror's copy was made
WriteBytes ==
    /\ pc = "write"
    /\ \E now \in Times :
          /\ now >= resp.lastModified
          /\ snapshot' = [present |-> TRUE, content |-> resp.body, mtime |-> now]
    /\ snapLM' = resp.lastModified
    /\ pc' = "utime"
    /\ UNCHANGED <<env, remote, rootExists, rootFiles, tmp, op, packages, idx, package_name,
                   request, resp, uri, deb, data_filename, err, stdout,
                   syncs, gets, attempted, raised, hadSnapshot, prevOutcome>>

\* the timestamp without .replace(tzinfo=utc): the date read as local time
TimestampLocal(r) == r.lastModified - tzOffset

\* lines 48-51: the timestamp os.utime is given
Timestamp(r) == strptimeUTC(r.lastModified)

\* line 52: os.utime(packages_path, times=(timestamp, timestamp)); update returns
Utime ==
    /\ pc = "utime"
    /\ snapshot' = [snapshot EXCEPT !.mtime = Timestamp(resp)]
    /\ prevOutcome' = IF hadSnapshot THEN "full" ELSE "first_full"
    /\ pc' = AfterUpdate(op)
    /\ UNCHANGED <<env, remote, rootExists, rootFiles, tmp, op, packages, idx, package_name,
                   request, resp, uri, deb, data_filename, err, stdout,
                   syncs, gets, attempted, raised, hadSnapshot, snapLM>>

\* ----------------------------------------------------------------- install
\* lines 62-63: the for loop hands the next name to install1, or install returns
Loop ==
    /\ pc = "loop"
    /\ IF idx <= Len(packages)
          THEN /\ package_name' = packages[idx]
               /\ attempted' = Append(attempted, packages[idx])
               /\ idx' = idx + 1
               /\ pc' = "resolve"
          ELSE /\ pc' = "done"
               /\ UNCHANGED <<package_name, attempted, idx>>
    /\ UNCHANGED <<env, remote, files, op, packages, request, resp, uri, deb,
                   data_filename, err, stdout, syncs, gets, raised, hadSnapshot,
                   prevOutcome, snapLM>>

\* install1 with tempfile.mkdtemp() in place of the with block
Install1RaiseLeak(e) ==
    /\ tmp' = tmp
    /\ err' = e
    /\ raised' = TRUE
    /\ pc' = "done"

\* an exception leaves install1: the TemporaryDirectory, if entered, is removed
Install1Raise(e) ==
    /\ tmp' = {}
    /\ err' = e
    /\ raised' = TRUE
    /\ pc' = AfterInstall1Raise

\* line 73: uri = f'{mirror}/{filename}', the base and the path it is joined with
Uri(filename) == <<mirror, filename>>

\* lines 67-80: scan the snapshot for the name and build the uri
ResolveStep ==
    /\ pc = "resolve"
    /\ IF ~snapshot.present
          THEN /\ Install1Raise([type |-> "FileNotFoundError", msg |-> "", arg |-> ""])
               /\ UNCHANGED uri
          ELSE LET r == Resolve(snapshot.content, package_name) IN
               IF r.kind = "ok"
                  THEN /\ uri' = Uri(r.value)
                       /\ pc' = "download"
                       /\ UNCHANGED <<tmp, err, raised>>
                  ELSE /\ Install1Raise(ResolveError(r))
                       /\ UNCHANGED uri
    /\ UNCHANGED <<env, remote, rootExists, snapshot, rootFiles, op, packages, idx,
                   package_name, request, resp, deb, data_filename, stdout,
                   syncs, gets, attempted, hadSnapshot, prevOutcome, snapLM>>

\* lines 83-87: the mirror serves an artifact, written to td/tmp.deb
Download ==
    /\ pc = "download"
    /\ \E d \in Debs :
          /\ deb' = d
          /\ tmp' = {TmpDeb}
    /\ pc' = "ar_t"
    /\ UNCHANGED <<env, remote, rootExists, snapshot, rootFiles, op, packages, idx,
                   package_name, request, resp, uri, data_filename, err, stdout, hist>>

\* line 86 raises: the GET of the artifact fails
DownloadFail ==
    /\ pc = "download"
    /\ Install1Raise([type |-> "HTTPError", msg |-> "", arg |-> ""])
    /\ UNCHANGED <<env, remote, rootExists, snapshot, rootFiles, op, packages, idx,
                   package_name, request, resp, uri, deb, data_filename, stdout,
                   syncs, gets, attempted, hadSnapshot, prevOutcome, snapLM>>

\* lines 88-93: busybox ar -t, and the one-element unpacking of the matches
ArList ==
    /\ pc = "ar_t"
    /\ IF Len(DataMembers(deb)) = 1
          THEN /\ data_filename' = DataMembers(deb)[1]
               /\ pc' = "ar_x"
               /\ UNCHANGED <<tmp, err, raised>>
          ELSE /\ Install1Raise([type |-> "ValueError", msg |-> "unpack", arg |-> ""])
               /\ UNCHANGED data_filename
    /\ UNCHANGED <<env, remote, rootExists, snapshot, rootFiles, op, packages, idx,
                   package_name, request, resp, uri, deb, stdout,
                   syncs, gets, attempted, hadSnapshot, prevOutcome, snapLM>>

\* lines 94-96: busybox ar -x writes the member into td
ArExtract ==
    /\ pc = "ar_x"
    /\ tmp' = tmp \cup {data_filename}
    /\ pc' = "tar"
    /\ UNCHANGED <<env, remote, rootExists, snapshot, rootFiles, op, packages, idx,
                   package_name, request, resp, uri, deb, data_filename, err, stdout, hist>>

\* the member piped from ar into tar: ar's failure shows once tar has unpacked
ArFailAfterUnpack ==
    /\ pc \in {"ar_t", "ar_x"}
    /\ rootFiles' = [p \in Paths |-> IF deb.payload[p] # "" THEN deb.payload[p]
                                                              ELSE rootFiles[p]]
    /\ tmp' = {}
    /\ err' = [type |-> "CalledProcessError", msg |-> "ar", arg |-> ""]
    /\ raised' = TRUE
    /\ pc' = "done"
    /\ UNCHANGED <<env, remote, rootExists, snapshot, op, packages, idx,
                   package_name, request, resp, uri, deb, data_filename, stdout,
                   syncs, gets, attempted, hadSnapshot, prevOutcome, snapLM>>

\* check_output or check_call of busybox ar exits non-zero
ArFail ==
    /\ pc \in {"ar_t", "ar_x"}
    /\ Install1Raise([type |-> "CalledProcessError", msg |-> "ar", arg |-> ""])
    /\ UNCHANGED <<env, remote, rootExists, snapshot, rootFiles, op, packages, idx,
                   package_name, request, resp, uri, deb, data_filename, stdout,
                   syncs, gets, attempted, hadSnapshot, prevOutcome, snapLM>>

\* line 102: tar xf unpacks the payload over root_path; the with block ends
TarExtract ==
    /\ pc = "tar"
    /\ rootFiles' = Overlay(rootFiles, deb.payload, Paths)
    /\ tmp' = {}
    /\ pc' = "loop"
    /\ UNCHANGED <<env, remote, rootExists, snapshot, op, packages, idx,
                   package_name, request, resp, uri, deb, data_filename, err, stdout, hist>>

\* line 102 raises: tar stops after writing some of the payload
TarFail ==
    /\ pc = "tar"
    /\ \E written \in SUBSET Paths :
          /\ written # Paths
          /\ rootFiles' = Overlay(rootFiles, deb.payload, written)
    /\ Install1Raise([type |-> "CalledProcessError", msg |-> "tar", arg |-> ""])
    /\ UNCHANGED <<env, remote, rootExists, snapshot, op, packages, idx,
                   package_name, request, resp, uri, deb, data_filename, stdout,
                   syncs, gets, attempted, hadSnapshot, prevOutcome, snapLM>>

\* -------------------------------------------------------------------- list
\* lines 108-113: print the name and the description lines of the snapshot
List ==
    /\ pc = "list"
    /\ IF snapshot.present
          THEN /\ stdout' = ListOutput(snapshot.content, 1)
               /\ UNCHANGED err
          ELSE /\ err' = [type |-> "FileNotFoundError", msg |-> "", arg |-> ""]
               /\ UNCHANGED stdout
    /\ pc' = "done"
    /\ UNCHANGED <<env, remote, files, op, packages, idx, package_name, request, resp,
                   uri, deb, data_filename, hist>>

\* --------------------------------------------------------------------- run
\* lines 117-125: the child runs with the root's directories on PATH
Run ==
    /\ pc = "run"
    /\ \E ok \in BOOLEAN :
          err' = IF ok THEN NoErr
                 ELSE [type |-> "CalledProcessError", msg |-> "run", arg |-> ""]
    /\ pc' = "done"
    /\ UNCHANGED <<env, remote, files, op, packages, idx, package_name, request, resp,
                   uri, deb, data_filename, stdout, hist>>

\* ------------------------------------------------------------- environment
Ops == {"update", "list", "install", "run"}
Names == {"foo", "baz"}

RECURSIVE SeqsUpTo(_, _)
\* the sequences over S of length at most n
SeqsUpTo(S, n) ==
    IF n = 0 THEN {<<>>}
    ELSE LET shorter == SeqsUpTo(S, n - 1) IN
         shorter \cup {Append(q, x) : q \in shorter, x \in S}

\* argparse: install and run take one or more arguments, update and list none
ArgsOf(o) ==
    CASE o = "install" -> SeqsUpTo(Names, MaxPackages) \ {<<>>}
      [] o = "run" -> {<<"hello">>}
      [] OTHER -> {<<>>}

IndexA ==
    << PackageLine("foo"), <<"Description:", "says", "hi">>, <<"Filename:", "pool/foo.deb">>,
       Blank,
       PackageLine("foobar"), <<"Filename:", "pool/a", "pool/b.deb">>, Blank >>
IndexB ==
    << PackageLine("foo"), Blank, PackageLine("foobar"), <<"Filename:", "pool/b.deb">> >>
SyncIndexes == {IndexA, IndexB}

\* the mirror publishes another index, with a later Last-Modified; an
\* invocation reads the index at one GET only, so a change during an
\* invocation is a change before or after it
RemoteChange ==
    /\ pc \in {"idle", "done"}
    /\ \E t \in Times, ix \in SyncIndexes :
          /\ t > remoteLM
          /\ ix # remoteIndex
          /\ remoteLM' = t
          /\ remoteIndex' = ix
    /\ prevOutcome' = "none"
    /\ UNCHANGED <<env, files, proc, syncs, gets, attempted, raised, hadSnapshot, snapLM>>

Invoke == \E o \in Ops : \E args \in ArgsOf(o) : Start(o, args)

\* the state before the first invocation: nothing under root_path yet
Init ==
    /\ machine \in Machines
    /\ tzOffset \in Offsets
    /\ remoteIndex \in SyncIndexes
    /\ remoteLM \in Times
    /\ rootExists = FALSE
    /\ snapshot = NoSnapshot
    /\ rootFiles = [p \in Paths |-> ""]
    /\ tmp = {}
    /\ pc = "idle"
    /\ op = "update"
    /\ packages = <<>>
    /\ idx = 1
    /\ package_name = ""
    /\ request = NoHeader
    /\ resp = NoResp
    /\ uri = <<>>
    /\ deb = NoDeb
    /\ data_filename = <<>>
    /\ err = NoErr
    /\ stdout = <<>>
    /\ syncs = 0
    /\ gets = 0
    /\ attempted = <<>>
    /\ raised = FALSE
    /\ hadSnapshot = FALSE
    /\ prevOutcome = "none"
    /\ snapLM = 0

Next ==
    \/ Invoke
    \/ Mkdir
    \/ BuildRequest
    \/ Urlopen200
    \/ UrlopenHTTPError
    \/ WriteBytes
    \/ Utime
    \/ Loop
    \/ ResolveStep
    \/ Download
    \/ DownloadFail
    \/ ArList
    \/ ArExtract
    \/ ArFail
    \/ TarExtract
    \/ TarFail
    \/ List
    \/ Run
    \/ RemoteChange

Spec == Init /\ [][Next]_vars

\* ------------------------------------------- install1 over every small index
ResolveLines ==
    { PackageLine("foo"), PackageLine("foobar"),
      <<"Filename:", "pool/foo.deb">>, <<"Filename:", "pool/a", "pool/b.deb">>,
      Blank, <<"Description:", "says", "hi">> }
ResolveNames == {"foo", "foobar"}

\* install(name) right after its update() stored a first snapshot of an
\* arbitrary index of at most MaxLines lines
InitResolve ==
    /\ machine = "x86_64"
    /\ tzOffset = 0
    /\ remoteIndex \in SeqsUpTo(ResolveLines, MaxLines)
    /\ remoteLM = 0
    /\ rootExists = TRUE
    /\ snapshot = [present |-> TRUE, content |-> remoteIndex, mtime |-> remoteLM]
    /\ rootFiles = [p \in Paths |-> ""]
    /\ tmp = {}
    /\ pc = AfterUpdate("install")
    /\ op = "install"
    /\ packages \in {<<n>> : n \in ResolveNames}
    /\ idx = 1
    /\ package_name = ""
    /\ request = NoHeader
    /\ resp = [status |-> 200, body |-> remoteIndex, lastModified |-> remoteLM]
    /\ uri = <<>>
    /\ deb = NoDeb
    /\ data_filename = <<>>
    /\ err = NoErr
    /\ stdout = <<>>
    /\ syncs = 1
    /\ gets = 1
    /\ attempted = <<>>
    /\ raised = FALSE
    /\ hadSnapshot = FALSE
    /\ prevOutcome = "first_full"
    /\ snapLM = remoteLM

NextResolve ==
    \/ Loop
    \/ ResolveStep
    \/ Download
    \/ DownloadFail
    \/ ArList
    \/ ArExtract
    \/ ArFail
    \/ TarExtract
    \/ TarFail

SpecResolve == InitResolve /\ [][NextResolve]_vars

\* ================================================================== claims

\* C1: two sync calls in a row with no change of the remote index between
\* them make exactly one full download: the first call, begun without a
\* snapshot, stores the full body, and the call after it receives no body.
C1_SecondSyncTransfersNothing ==
    prevOutcome = "first_full" =>
        /\ snapshot.present
        /\ snapshot.content = remoteIndex
        /\ pc # "write"

\* C2: between sync calls, however they ended, an existing snapshot's
\* modification time is the Last-Modified of the response whose body it holds.
C2_MtimeIsLastModified ==
    (snapshot.present /\ pc # "utime") => snapshot.mtime = snapLM

C2_Witness ==
    /\ pc = "done"
    /\ op = "update"
    /\ resp.status = 200
    /\ hadSnapshot
    /\ tzOffset # 0
    /\ snapLM > 0
    /\ snapshot.mtime = snapLM

\* C3: the request a sync sends carries an If-Modified-Since that denotes the
\* instant of the snapshot's modification time when a snapshot exists, and
\* no precondition when none exists.
C3_PreconditionIsSnapshotTime ==
    pc = "urlopen" =>
        IF snapshot.present
           THEN request.present /\ request.gmt = snapshot.mtime
           ELSE ~request.present

\* C4: one install invocation performs sync exactly once, completed before
\* the first name is resolved, and issues no further index GET.
C4_InstallSyncsOnce ==
    op = "install" =>
        /\ syncs <= 1
        /\ gets <= 1
        /\ (attempted # <<>> => syncs = 1 /\ gets = 1 /\ pc \notin UpdatePcs)
        /\ (pc = "done" /\ err = NoErr => syncs = 1 /\ gets = 1)

C4_Witness ==
    /\ op = "install"
    /\ pc = "done"
    /\ err = NoErr
    /\ Len(attempted) = MaxPackages
    /\ gets = 1

\* C5: install hands the names to install1 in the order given, and the first
\* name that fails ends the invocation with that error: no later name is tried.
C5_InOrderAbortOnFirstFailure ==
    /\ Len(attempted) <= Len(packages)
    /\ attempted = SubSeq(packages, 1, Len(attempted))
    /\ raised => /\ pc = "done"
                 /\ err # NoErr
                 /\ Len(attempted) = idx - 1

C5_Witness ==
    /\ raised
    /\ pc = "done"
    /\ Len(packages) = 2
    /\ attempted = <<packages[1]>>
    /\ packages[1] # packages[2]

\* C6: a 304 answer leaves the snapshot's content and modification time as
\* they were, and sync returns normally to its caller.
C6_NotModifiedIsNoop ==
    [][(pc = "urlopen" /\ resp'.status = 304) =>
          /\ snapshot' = snapshot
          /\ err' = NoErr
          /\ pc' = AfterUpdate(op)]_vars

C6_Witness ==
    /\ resp.status = 304
    /\ op = "install"
    /\ pc = "download"
    /\ snapshot.present

\* C7: an HTTP failure status other than 304 ends the invocation with the
\* error (no name is resolved, nothing is listed) and leaves the snapshot as
\* it was before the call.
C7_HTTPErrorPropagates ==
    [][(pc = "urlopen" /\ resp'.status \notin {200, 304}) =>
          /\ snapshot' = snapshot
          /\ pc' = "done"
          /\ err'.type = "HTTPError"
          /\ attempted' = <<>>
          /\ stdout' = <<>>]_vars

C7_Witness ==
    /\ resp.status = 503
    /\ pc = "done"
    /\ op = "list"
    /\ err.type = "HTTPError"
    /\ snapshot.present
    /\ snapshot.content # remoteIndex

\* ------------------------------------------------ stanzas, as the spec has them
\* line i of the index is the Package line of a stanza for the name
MatchAt(ix, name, i) == i \in 1..Len(ix) /\ ix[i] = PackageLine(name)

\* the terminator of the stanza whose Package line is line i: the first blank
\* line after it, or the end of the stream (Len + 1)
StanzaEnd(ix, i) ==
    CHOOSE e \in (i + 1)..(Len(ix) + 1) :
        /\ e = Len(ix) + 1 \/ ix[e] = Blank
        /\ \A k \in (i + 1)..(e - 1) : ix[k] # Blank

\* the lines of that stanza that are Filename fields
FilenameFields(ix, i) ==
    {j \in (i + 1)..(StanzaEnd(ix, i) - 1) : StartsWithField(ix[j], "Filename:")}

Min(S) == CHOOSE x \in S : \A y \in S : x <= y

\* the last whitespace-delimited token of a line: its last non-empty word
LastWord(line) ==
    line[CHOOSE k \in 1..Len(line) :
            line[k] # "" /\ \A m \in (k + 1)..Len(line) : line[m] = ""]

\* the stanzas of the index that carry the name
Matches(ix, name) == {i \in 1..Len(ix) : MatchAt(ix, name, i)}

\* install1 has finished its scan of the snapshot for package_name
Scanned == attempted # <<>> /\ pc # "resolve"

\* C8 as stated: whenever some stanza for the name has a Filename field,
\* resolve returns the last token of a Filename line of that stanza and the
\* artifact is fetched from the mirror joined with it.
C8_AnyMatchingStanzaResolves ==
    Scanned =>
        \A i \in Matches(snapshot.content, package_name) :
            FilenameFields(snapshot.content, i) # {} =>
                \E j \in FilenameFields(snapshot.content, i) :
                    uri = <<mirror, LastWord(snapshot.content[j])>>

\* C8, amended: when the first stanza for the name has a Filename field,
\* resolve returns the last token of the first Filename line of that stanza
\* and the artifact is fetched from the mirror joined with it.
C8_FirstMatchingStanzaResolves ==
    (Scanned /\ Matches(snapshot.content, package_name) # {}) =>
        LET i == Min(Matches(snapshot.content, package_name))
            fields == FilenameFields(snapshot.content, i)
        IN  fields # {} =>
                /\ uri = <<mirror, LastWord(snapshot.content[Min(fields)])>>
                /\ err.type \notin {"RuntimeError", "UnboundLocalError"}

C8_Witness ==
    /\ pc = "ar_t"
    /\ package_name = "foobar"
    /\ uri = <<mirror, "pool/b.deb">>
    /\ snapshot.content[1] = PackageLine("foo")
    /\ deb # NoDeb

\* C9: a matching stanza that ends, at a blank line or at the end of the
\* stream, before any Filename field fails with the malformed-record error,
\* and nothing is downloaded or extracted.
C9_MalformedRecord ==
    (Scanned /\ Matches(snapshot.content, package_name) # {}) =>
        (FilenameFields(snapshot.content, Min(Matches(snapshot.content, package_name))) = {} =>
            /\ pc = "done"
            /\ err = [type |-> "RuntimeError", msg |-> "Package found, but no URL?", arg |-> ""]
            /\ deb = NoDeb
            /\ tmp = {}
            /\ rootFiles = [p \in Paths |-> ""])

\* C10: a name no Package line of the index matches fails with the
\* package-not-found error carrying that name, and nothing is downloaded or
\* extracted for it.
C10_PackageNotFound ==
    (Scanned /\ Matches(snapshot.content, package_name) = {}) =>
        /\ pc = "done"
        /\ err = [type |-> "RuntimeError", msg |-> "No such package", arg |-> package_name]
        /\ uri = <<>>
        /\ deb = NoDeb
        /\ tmp = {}
        /\ rootFiles = [p \in Paths |-> ""]

C10_Witness ==
    /\ pc = "done"
    /\ package_name = "foo"
    /\ err.msg = "No such package"
    /\ err.arg = "foo"
    /\ Len(snapshot.content) = MaxLines
    /\ snapshot.content[1] = PackageLine("foobar")
    /\ snapshot.content[2] = <<"Filename:", "pool/foo.deb">>

\* the stanzas for the name that begin after the first one's terminator
LaterStanzas(ix, name) ==
    {j \in Matches(ix, name) : j > StanzaEnd(ix, Min(Matches(ix, name)))}

\* C11: when several stanzas carry the name, the first of them alone decides
\* resolve: the last token of its Filename line is returned, or the
\* malformed-record error is raised when it has none, whatever the later
\* stanzas hold.
C11_FirstStanzaDecides ==
    (Scanned /\ Matches(snapshot.content, package_name) # {}
             /\ LaterStanzas(snapshot.content, package_name) # {}) =>
        LET fields == FilenameFields(snapshot.content,
                                     Min(Matches(snapshot.content, package_name)))
        IN  IF fields # {}
               THEN /\ uri = <<mirror, LastWord(snapshot.content[Min(fields)])>>
                    /\ err.type \notin {"RuntimeError", "UnboundLocalError"}
               ELSE /\ pc = "done"
                    /\ uri = <<>>
                    /\ err = [type |-> "RuntimeError",
                              msg |-> "Package found, but no URL?", arg |-> ""]

C11_Witness ==
    /\ pc = "done"
    /\ package_name = "foo"
    /\ snapshot.content = << PackageLine("foo"), Blank,
                             PackageLine("foo"), <<"Filename:", "pool/foo.deb">> >>
    /\ err.msg = "Package found, but no URL?"

\* the number of members of the container named data.tar.*
NData(d) == Cardinality({k \in 1..Len(d.members) : IsDataMember(d.members[k])})

\* C12: the member is extracted and the payload unpacked only when exactly
\* one member of the container is named data.tar.*; with none or several the
\* attempt fails with the layout error before any member is extracted and
\* before anything is written to the root.
C12_ExactlyOnePayloadMember ==
    /\ [](pc \in {"ar_x", "tar"} =>
            /\ NData(deb) = 1
            /\ IsDataMember(data_filename)
            /\ \E k \in 1..Len(deb.members) : deb.members[k] = data_filename)
    /\ [][(pc = "ar_t" /\ NData(deb) # 1) =>
            /\ pc' = "done"
            /\ err'.type = "ValueError" \/ err'.msg = "ar"
            /\ tmp' = {}
            /\ data_filename' = data_filename
            /\ rootFiles' = rootFiles]_vars

C12_Witness ==
    /\ pc = "done"
    /\ err.type = "ValueError"
    /\ NData(deb) = 2
    /\ Len(attempted) = 1
    /\ data_filename = <<>>
    /\ rootFiles = [p \in Paths |-> ""]

\* C13: whenever control is outside install1, on every way out of it, the
\* downloaded artifact and the extracted payload member are gone.
C13_TemporariesRemoved ==
    pc \notin {"ar_t", "ar_x", "tar"} => tmp = {}

C13_Witness ==
    /\ pc = "done"
    /\ err.msg = "tar"
    /\ data_filename # <<>>
    /\ tmp = {}

\* C14: on a host whose machine type is not in the architecture mapping
\* every subcommand fails with the lookup error, and no request is issued
\* and nothing is created before that.
C14_UnsupportedPlatform ==
    machine \notin {"x86_64"} =>
        /\ pc \in {"idle", "done"}
        /\ pc = "done" => err.type = "KeyError"
        /\ gets = 0
        /\ deb = NoDeb
        /\ ~rootExists
        /\ ~snapshot.present

C14_Witness ==
    /\ machine = "aarch64"
    /\ pc = "done"
    /\ op = "run"
    /\ err.type = "KeyError"

\* C15: the installation root exists whenever the index GET is issued or
\* answered and whenever install1 runs, so before every unpack step.
C15_RootExistsFirst ==
    /\ pc \in ({"urlopen", "write", "utime", "loop", "list"} \cup Install1Pcs) => rootExists
    /\ gets > 0 => rootExists

C15_Witness ==
    /\ pc = "tar"
    /\ rootExists
    /\ gets = 1
    /\ ~hadSnapshot

\* C16: a successful unpack makes every path of the package's payload hold
\* the package's content, whatever the root held there, and leaves every
\* other path as it was; so after a sequence of successful installs each
\* path holds the content of the last package that contains it.
C16_LastInstallWins ==
    [][(pc = "tar" /\ pc' = "loop") =>
          \A p \in Paths :
              rootFiles'[p] = IF deb.payload[p] # "" THEN deb.payload[p]
                                                      ELSE rootFiles[p]]_vars

C16_Witness ==
    /\ pc = "loop"
    /\ ~raised
    /\ Len(attempted) = 2
    /\ deb.payload["bin/hello"] = "v1"
    /\ deb.payload["usr/bin/foo"] = ""
    /\ rootFiles["bin/hello"] = "v1"
    /\ rootFiles["usr/bin/foo"] = "v2"

\* C18: whenever sync has returned normally and the mirror has not changed
\* since, the snapshot holds the mirror's current index: a not-modified
\* answer is never given to a snapshot older than the remote copy.
C18_SnapshotFreshAfterSync ==
    prevOutcome \in {"first_full", "full", "notmod"} =>
        /\ snapshot.present
        /\ snapshot.content = remoteIndex

\* C19: no step of an installation attempt before the unpack step (resolve,
\* download, member listing, member extraction), failing or not, changes the
\* files of the root: a failure there leaves them as they were before the
\* package was attempted, with the files of the packages installed earlier.
C19_NoChangeBeforeUnpack ==
    [][(pc \in {"resolve", "download", "ar_t", "ar_x"}) => (rootFiles' = rootFiles)]_vars

C19_Witness ==
    /\ pc = "done"
    /\ err.msg = "ar"
    /\ Len(attempted) = 2
    /\ data_filename = <<"data", "tar", "gz">>
    /\ rootFiles["bin/hello"] = "v1"
    /\ rootFiles["usr/bin/foo"] = ""

\* ---------------------------------------------------- list over every small index
ListLines ==
    { PackageLine("foo"), PackageLine("foobar"),
      <<"Description:", "says", "hi">>, <<"Description:", "other">>, Blank }

InvokeList == Start("list", <<>>)

\* the state before the first invocation, the mirror holding an arbitrary
\* index of at most MaxLines lines
InitList ==
    /\ machine = "x86_64"
    /\ tzOffset = 0
    /\ remoteIndex \in SeqsUpTo(ListLines, MaxLines)
    /\ remoteLM = 0
    /\ rootExists = FALSE
    /\ snapshot = NoSnapshot
    /\ rootFiles = [p \in Paths |-> ""]
    /\ tmp = {}
    /\ pc = "idle"
    /\ op = "update"
    /\ packages = <<>>
    /\ idx = 1
    /\ package_name = ""
    /\ request = NoHeader
    /\ resp = NoResp
    /\ uri = <<>>
    /\ deb = NoDeb
    /\ data_filename = <<>>
    /\ err = NoErr
    /\ stdout = <<>>
    /\ syncs = 0
    /\ gets = 0
    /\ attempted = <<>>
    /\ raised = FALSE
    /\ hadSnapshot = FALSE
    /\ prevOutcome = "none"
    /\ snapLM = 0

NextList ==
    \/ InvokeList
    \/ Mkdir
    \/ BuildRequest
    \/ Urlopen200
    \/ UrlopenHTTPError
    \/ WriteBytes
    \/ Utime
    \/ List

SpecList == InitList /\ [][NextList]_vars

\* the Package lines of the index, each the head of a stanza
PackageFields(ix) == {i \in 1..Len(ix) : StartsWithField(ix[i], "Package:")}

\* the k-th of them in index order
KthPackage(ix, k) ==
    CHOOSE i \in PackageFields(ix) : Cardinality({j \in PackageFields(ix) : j <= i}) = k

\* the Description lines of the stanza whose Package line is line i
DescriptionFields(ix, i) ==
    {j \in (i + 1)..(StanzaEnd(ix, i) - 1) : StartsWithField(ix[j], "Description:")}

\* C17: list syncs first and then prints, for each stanza of the snapshot in
\* index order, one pair: the name, then the one-line description of that
\* same stanza; also when some stanza has no Description field.
C17_ListOnePairPerStanza ==
    (op = "list" /\ pc = "done" /\ err = NoErr) =>
        LET ix == snapshot.content
            n == Cardinality(PackageFields(ix))
        IN  /\ syncs = 1
            /\ gets = 1
            /\ Len(stdout) = 2 * n
            /\ \A k \in 1..n :
                  LET i == KthPackage(ix, k)
                      ds == DescriptionFields(ix, i)
                  IN  /\ stdout[2 * k - 1] = [text |-> <<LastWord(ix[i])>>, end |-> "\t"]
                      /\ stdout[2 * k].end = "\n"
                      /\ ds # {} =>
                            stdout[2 * k].text = SubSeq(ix[Min(ds)], 2, Len(ix[Min(ds)]))

====
